---- MODULE Spec2Model ----
(***************************************************************************)
(* A model of custom_vector.h: RawMemory<T> (an owning handle to a block   *)
(* of uninitialised storage) and Vector<T> (the sequence container built   *)
(* on it).                                                                 *)
(*                                                                         *)
(* The free store is `heap`: a block is a sequence of slots, a slot is     *)
(* either Raw (no object) or the value of a live object of type T.  Slot   *)
(* i of the source (0-based) is slots[i+1] here.                           *)
(*                                                                         *)
(* T is a test type holding an integer.  Its traits are chosen in Init:    *)
(* nothrowMove is std::is_nothrow_move_constructible_v<T> (and the same    *)
(* for move assignment), copyable is std::is_copy_constructible_v<T>.  A   *)
(* moved-from T holds MovedFrom, a value-initialised T holds DefaultValue. *)
(*                                                                         *)
(* Every operation runs on a "machine" record m: the heap, the vectors,    *)
(* the pending exception (thrown), the injected fault and the counts of    *)
(* what the call did.  An injected fault is either the failure of operator *)
(* new (allocFail) or the throwAt-th element operation that may throw.     *)
(*                                                                         *)
(* last and pre are the observer's record of a call: the call with its     *)
(* outcome, and the state it was made in.  Return drops the record; calls  *)
(* are made from a state without one (Erase also right after an Emplace).  *)
(***************************************************************************)
EXTENDS Integers, Sequences, FiniteSets

VARIABLES heap,    \* the free store: block id -> [alloc, slots]
          vec,     \* the Vector objects: name -> [alive, data, size]
          traits,  \* the traits of the element type T
          last,    \* the last call: operation, arguments, outcome, counts
          pre,     \* heap and vec as they were before the last call
          leaked,  \* some block has lost its owner without being released
          ub,      \* the program has met undefined behaviour
          saved,   \* the elements before the Emplace that an Erase directly followed
          hist     \* the pushes and pops made so far (SpecStack only)

vars == <<heap, vec, traits, last, pre, leaked, ub, saved, hist>>

\* ------------------------------------------------------------- bounds
MaxCap == 4        \* no call may ask for a block of more than MaxCap slots
MaxSize == 3       \* no call may make a vector of more than MaxSize elements
MaxSize2 == 2      \* the same in SpecTwo, where there are two vectors
MaxBlocks == 3     \* block ids: one per vector and one for a call's new buffer
MaxCalls == 6      \* SpecStack: pushes are counted up to MaxCalls

Vecs == {"a", "b"}
\* The values given to the container.  The container never looks into an
\* element (only the comparison operators do, through T's own == and <), so
\* two values that differ, with DefaultValue as a third, tell apart every
\* order and every mix-up of elements.
Values == {1, 2}
Blocks == 1..MaxBlocks

\* ------------------------------------------------- the element type T
Raw == -1              \* a slot that holds no object
DefaultValue == 0      \* T(): what std::uninitialized_value_construct_n makes
MovedFrom == 0         \* the value left in an object that was moved from

Kinds == { [nothrowMove |-> TRUE,  copyable |-> TRUE],
           [nothrowMove |-> FALSE, copyable |-> TRUE],
           [nothrowMove |-> FALSE, copyable |-> FALSE] }

\* if constexpr (is_nothrow_move_constructible_v<T> || !is_copy_constructible_v<T>)
MoveIfNoexcept == traits.nothrowMove \/ ~traits.copyable

\* ------------------------------------------------------- the free store
NullPtr == 0
NoBlock == [alloc |-> FALSE, slots |-> <<>>]

Min(S) == CHOOSE x \in S : \A y \in S : x <= y
Max2(x, y) == IF x >= y THEN x ELSE y

FreeBlocks(h) == {b \in Blocks : ~h[b].alloc}
Live(slots) == {i \in DOMAIN slots : slots[i] # Raw}

Thrown(m) == m.thrown # "none"

\* operator new(n * sizeof(T)): the address a successful request returns
NewBlock(h) == Min(FreeBlocks(h))

\* RawMemory::Allocate
Allocate(m, n) ==
    IF n = 0 THEN m
    ELSE IF m.allocFail THEN [m EXCEPT !.thrown = "bad_alloc"]
    ELSE [m EXCEPT !.heap[NewBlock(m.heap)] =
                       [alloc |-> TRUE, slots |-> [i \in 1..n |-> Raw]],
                   !.allocs = @ + 1]

\* explicit RawMemory(size_t capacity_): the handle that Allocate(m, n) fills
RawMemoryOf(m, n) ==
    [buffer |-> IF n = 0 THEN NullPtr ELSE NewBlock(m.heap), capacity |-> n]

\* RawMemory() = default
EmptyRawMemory == [buffer |-> NullPtr, capacity |-> 0]

\* RawMemory::Deallocate, as ~RawMemory calls it.  Objects still alive in the
\* block are never destroyed: they are counted in lost.
Deallocate(m, buf) ==
    IF buf = NullPtr THEN m
    ELSE IF ~m.heap[buf].alloc THEN [m EXCEPT !.ub = TRUE]
    ELSE [m EXCEPT !.heap[buf] = NoBlock,
                   !.frees = @ + 1,
                   !.lost = @ + Cardinality(Live(m.heap[buf].slots))]

\* ---------------------------------------------- element-level primitives
\* Does the next element operation throw?  Only an operation that can throw
\* consumes the injected fault.
Throws(m, canThrow) == canThrow /\ m.throwAt = 1
Tick(m, canThrow, n) ==
    IF canThrow /\ m.throwAt > 0 THEN Max2(m.throwAt - n, 0) ELSE m.throwAt

InBlock(m, buf, i) == buf # NullPtr /\ m.heap[buf].alloc /\ i + 1 \in DOMAIN m.heap[buf].slots

\* new (buf + i) T(x)
ConstructAt(m, buf, i, x, canThrow) ==
    IF Throws(m, canThrow) THEN [m EXCEPT !.thrown = "elem", !.throwAt = 0]
    ELSE IF ~InBlock(m, buf, i) \/ x = Raw THEN [m EXCEPT !.ub = TRUE]
    ELSE [m EXCEPT !.heap[buf].slots[i + 1] = x,
                   !.ctor = @ + 1,
                   !.lost = @ + (IF m.heap[buf].slots[i + 1] # Raw THEN 1 ELSE 0),
                   !.throwAt = Tick(m, canThrow, 1)]

\* std::destroy_at(buf + i)
DestroyAt(m, buf, i) ==
    IF ~InBlock(m, buf, i) THEN [m EXCEPT !.ub = TRUE]
    ELSE IF m.heap[buf].slots[i + 1] = Raw THEN [m EXCEPT !.ub = TRUE]
    ELSE [m EXCEPT !.heap[buf].slots[i + 1] = Raw, !.dtor = @ + 1]

\* *(buf + i) = x  (copy or move assignment to a live object)
AssignAt(m, buf, i, x, canThrow) ==
    IF Throws(m, canThrow) THEN [m EXCEPT !.thrown = "elem", !.throwAt = 0]
    ELSE IF ~InBlock(m, buf, i) \/ x = Raw THEN [m EXCEPT !.ub = TRUE]
    ELSE IF m.heap[buf].slots[i + 1] = Raw THEN [m EXCEPT !.ub = TRUE]
    ELSE [m EXCEPT !.heap[buf].slots[i + 1] = x,
                   !.asg = @ + 1,
                   !.throwAt = Tick(m, canThrow, 1)]

\* the value of the object at buf + i (Raw when there is none)
ReadAt(m, buf, i) == IF InBlock(m, buf, i) THEN m.heap[buf].slots[i + 1] ELSE Raw

\* the values of the n objects at buf + off
ReadN(m, buf, off, n) == [k \in 1..n |-> ReadAt(m, buf, off + k - 1)]

\* std::destroy_n(buf + off, n)
RECURSIVE DestroyN(_, _, _, _)
DestroyN(m, buf, off, n) ==
    IF n <= 0 THEN m
    ELSE DestroyN(DestroyAt(m, buf, off), buf, off + 1, n - 1)

\* The std::uninitialized_* algorithms: construct vals[1..n] at dst + doff in
\* order; when a construction throws, the objects already constructed are
\* destroyed and the exception is rethrown.
RECURSIVE UninitializedConstruct(_, _, _, _, _, _)
UninitializedConstruct(m, vals, dst, doff, canThrow, done) ==
    IF done = Len(vals) THEN m
    ELSE LET m1 == ConstructAt(m, dst, doff + done, vals[done + 1], canThrow)
         IN IF Thrown(m1) THEN DestroyN(m1, dst, doff, done)
            ELSE IF m1.ub THEN m1
            ELSE UninitializedConstruct(m1, vals, dst, doff, canThrow, done + 1)

\* std::uninitialized_copy_n(src + soff, n, dst + doff)
UninitializedCopyN(m, src, soff, n, dst, doff) ==
    UninitializedConstruct(m, ReadN(m, src, soff, n), dst, doff, TRUE, 0)

\* how many elements an algorithm over n elements handles before the fault
Handled(m, n, canThrow) ==
    IF canThrow /\ m.throwAt \in 1..n THEN m.throwAt - 1 ELSE n

\* std::uninitialized_move_n(src + soff, n, dst + doff): as the copy, and every
\* source object whose move constructor returned is left moved-from.
UninitializedMoveN(m, src, soff, n, dst, doff) ==
    LET moved == Handled(m, n, ~traits.nothrowMove)
        m1 == UninitializedConstruct(m, ReadN(m, src, soff, n), dst, doff,
                                     ~traits.nothrowMove, 0)
    IN IF n = 0 \/ m1.ub THEN m1
       ELSE [m1 EXCEPT !.heap[src].slots =
                [i \in DOMAIN @ |-> IF i - 1 \in soff..(soff + moved - 1)
                                    THEN MovedFrom ELSE @[i]]]

\* The transfer of the live elements into a new buffer:
\* move if T's move cannot throw or T cannot be copied, otherwise copy.
TransferMovesAlways(m, src, soff, n, dst, doff) ==
    UninitializedMoveN(m, src, soff, n, dst, doff)

Transfer(m, src, soff, n, dst, doff) ==
    IF MoveIfNoexcept THEN UninitializedMoveN(m, src, soff, n, dst, doff)
    ELSE UninitializedCopyN(m, src, soff, n, dst, doff)

\* ------------------------------------------------------------ Vector<T>
GrowthCapacityByOne(size) == size + 1

\* size == 0 ? 1 : size * 2
GrowthCapacity(size) == IF size = 0 THEN 1 ELSE size * 2

\* Vector::PushBack(Type&& value_)
PushBack(m, s, x) ==
    LET v == m.vec[s]
        size == v.size
        new_data == RawMemoryOf(m, GrowthCapacity(size))
    IN IF v.data.capacity <= size
       THEN LET m1 == Allocate(m, new_data.capacity) IN
            IF Thrown(m1) THEN m1 ELSE
            LET m2 == ConstructAt(m1, new_data.buffer, size, x, TRUE) IN
            IF Thrown(m2) THEN Deallocate(m2, new_data.buffer) ELSE
            LET m3 == Transfer(m2, v.data.buffer, 0, size, new_data.buffer, 0) IN
            IF Thrown(m3) THEN Deallocate(m3, new_data.buffer) ELSE
            LET m4 == DestroyN(m3, v.data.buffer, 0, size)
                m5 == [m4 EXCEPT !.vec[s].data = new_data]
                m6 == Deallocate(m5, v.data.buffer)
            IN [m6 EXCEPT !.vec[s].size = size + 1]
       ELSE LET m1 == ConstructAt(m, v.data.buffer, size, x, TRUE) IN
            IF Thrown(m1) THEN m1 ELSE [m1 EXCEPT !.vec[s].size = size + 1]

PopBackKeepsSize(m, s) ==
    DestroyAt(m, m.vec[s].data.buffer, m.vec[s].size - 1)

\* Vector::PopBack
PopBack(m, s) ==
    LET v == m.vec[s]
        m1 == DestroyAt(m, v.data.buffer, v.size - 1)
    IN [m1 EXCEPT !.vec[s].size = v.size - 1]

\* Vector::EmplaceBack(Args&&... args_); returns data[size++]
EmplaceBack(m, s, x) ==
    LET v == m.vec[s]
        size == v.size
        new_data == RawMemoryOf(m, GrowthCapacity(size))
    IN IF v.data.capacity <= size
       THEN LET m1 == Allocate(m, new_data.capacity) IN
            IF Thrown(m1) THEN m1 ELSE
            LET m2 == ConstructAt(m1, new_data.buffer, size, x, TRUE) IN
            IF Thrown(m2) THEN Deallocate(m2, new_data.buffer) ELSE
            LET m3 == Transfer(m2, v.data.buffer, 0, size, new_data.buffer, 0) IN
            IF Thrown(m3) THEN Deallocate(m3, new_data.buffer) ELSE
            LET m4 == DestroyN(m3, v.data.buffer, 0, size)
                m5 == [m4 EXCEPT !.vec[s].data = new_data]
                m6 == Deallocate(m5, v.data.buffer)
            IN [m6 EXCEPT !.vec[s].size = size + 1, !.ret = size]
       ELSE LET m1 == ConstructAt(m, v.data.buffer, size, x, TRUE) IN
            IF Thrown(m1) THEN m1
            ELSE [m1 EXCEPT !.vec[s].size = size + 1, !.ret = size]

\* Vector::Clear
Clear(m, s) ==
    LET v == m.vec[s]
        m1 == DestroyN(m, v.data.buffer, 0, v.size)
    IN [m1 EXCEPT !.vec[s].size = 0]

ReserveAlways(m, s, new_capacity) ==
    LET v == m.vec[s]
        new_data == RawMemoryOf(m, new_capacity)
        m1 == Allocate(m, new_capacity)
    IN IF Thrown(m1) THEN m1 ELSE
       LET m2 == Transfer(m1, v.data.buffer, 0, v.size, new_data.buffer, 0) IN
       IF Thrown(m2) THEN Deallocate(m2, new_data.buffer) ELSE
       LET m3 == DestroyN(m2, v.data.buffer, 0, v.size)
           m4 == [m3 EXCEPT !.vec[s].data = new_data]
       IN Deallocate(m4, v.data.buffer)

\* Vector::Reserve
Reserve(m, s, new_capacity) ==
    LET v == m.vec[s]
        new_data == RawMemoryOf(m, new_capacity)
    IN IF new_capacity <= v.data.capacity THEN m ELSE
       LET m1 == Allocate(m, new_capacity) IN
       IF Thrown(m1) THEN m1 ELSE
       LET m2 == Transfer(m1, v.data.buffer, 0, v.size, new_data.buffer, 0) IN
       IF Thrown(m2) THEN Deallocate(m2, new_data.buffer) ELSE
       LET m3 == DestroyN(m2, v.data.buffer, 0, v.size)
           m4 == [m3 EXCEPT !.vec[s].data = new_data]
       IN Deallocate(m4, v.data.buffer)

ResizeCapacityExact(capacity, new_size) == new_size

\* std::max(data.Capacity() * 2, new_size_)
ResizeCapacity(capacity, new_size) == Max2(capacity * 2, new_size)

\* Vector::Resize
Resize(m, s, new_size) ==
    LET v == m.vec[s] IN
    IF new_size < v.size
    THEN LET m1 == DestroyN(m, v.data.buffer, new_size, v.size - new_size)
         IN [m1 EXCEPT !.vec[s].size = new_size]
    ELSE LET m1 == IF new_size > v.data.capacity
                   THEN Reserve(m, s, ResizeCapacity(v.data.capacity, new_size))
                   ELSE m
         IN IF Thrown(m1) THEN m1 ELSE
            LET m2 == UninitializedConstruct(m1,
                          [k \in 1..(new_size - v.size) |-> DefaultValue],
                          m1.vec[s].data.buffer, v.size, TRUE, 0)
            IN IF Thrown(m2) THEN m2
               ELSE [m2 EXCEPT !.vec[s].size = new_size]

\* RawMemory::operator=(RawMemory&&): the handle takes rhs's block; the block it
\* held is not released, so when it held one that block has no owner left.
RawMemoryMoveAssign(m, s, rhs) ==
    [m EXCEPT !.vec[s].data = rhs,
              !.heap = IF m.vec[s].data.buffer # NullPtr /\ m.vec[s].data.buffer # rhs.buffer
                       THEN [@ EXCEPT ![m.vec[s].data.buffer] = NoBlock] ELSE @,
              !.leaked = @ \/ (m.vec[s].data.buffer # NullPtr
                               /\ m.vec[s].data.buffer # rhs.buffer)]

ShrinkToFitAlways(m, s) ==
    LET v == m.vec[s]
        new_data == RawMemoryOf(m, v.size)
    IN IF v.size = 0 THEN RawMemoryMoveAssign(m, s, EmptyRawMemory)
       ELSE LET m1 == Allocate(m, v.size) IN
            IF Thrown(m1) THEN m1 ELSE
            LET m2 == UninitializedMoveN(m1, v.data.buffer, 0, v.size, new_data.buffer, 0) IN
            IF Thrown(m2) THEN Deallocate(m2, new_data.buffer) ELSE
            LET m3 == [m2 EXCEPT !.vec[s].data = new_data]
            IN Deallocate(m3, v.data.buffer)

\* Vector::ShrinkToFit
ShrinkToFit(m, s) ==
    LET v == m.vec[s]
        new_data == RawMemoryOf(m, v.size)
    IN IF v.size = v.data.capacity THEN m
       ELSE IF v.size = 0 THEN RawMemoryMoveAssign(m, s, EmptyRawMemory)
       ELSE LET m1 == Allocate(m, v.size) IN
            IF Thrown(m1) THEN m1 ELSE
            LET m2 == UninitializedMoveN(m1, v.data.buffer, 0, v.size, new_data.buffer, 0) IN
            IF Thrown(m2) THEN Deallocate(m2, new_data.buffer) ELSE
            LET m3 == [m2 EXCEPT !.vec[s].data = new_data]
            IN Deallocate(m3, v.data.buffer)

AssignWithoutClear(m, s, vals) ==
    LET v == m.vec[s]
        new_size == Len(vals)
        new_data == RawMemoryOf(m, new_size)
    IN IF new_size > v.data.capacity
       THEN LET m1 == Allocate(m, new_size) IN
            IF Thrown(m1) THEN m1 ELSE
            LET m2 == UninitializedConstruct(m1, vals, new_data.buffer, 0, TRUE, 0) IN
            IF Thrown(m2) THEN Deallocate(m2, new_data.buffer) ELSE
            LET m3 == [m2 EXCEPT !.vec[s].data = new_data]
                m4 == Deallocate(m3, v.data.buffer)
            IN [m4 EXCEPT !.vec[s].size = new_size]
       ELSE LET m1 == UninitializedConstruct(m, vals, v.data.buffer, 0, TRUE, 0) IN
            IF Thrown(m1) THEN m1
            ELSE [m1 EXCEPT !.vec[s].size = new_size]

\* Vector::Assign(InputIt first_, InputIt last_): the range holds the values vals
Assign(m, s, vals) ==
    LET m0 == Clear(m, s)
        v == m0.vec[s]
        new_size == Len(vals)
        new_data == RawMemoryOf(m0, new_size)
    IN IF new_size > v.data.capacity
       THEN LET m1 == Allocate(m0, new_size) IN
            IF Thrown(m1) THEN m1 ELSE
            LET m2 == UninitializedConstruct(m1, vals, new_data.buffer, 0, TRUE, 0) IN
            IF Thrown(m2) THEN Deallocate(m2, new_data.buffer) ELSE
            LET m3 == [m2 EXCEPT !.vec[s].data = new_data]
                m4 == Deallocate(m3, v.data.buffer)
            IN [m4 EXCEPT !.vec[s].size = new_size]
       ELSE LET m1 == UninitializedConstruct(m0, vals, v.data.buffer, 0, TRUE, 0) IN
            IF Thrown(m1) THEN m1
            ELSE [m1 EXCEPT !.vec[s].size = new_size]

\* std::move(buf + first, buf + last, buf + d_first): move assignment, front to
\* back; each source is left moved-from.
RECURSIVE StdMove(_, _, _, _, _)
StdMove(m, buf, first_, last_, d_first) ==
    IF first_ >= last_ THEN m
    ELSE LET m1 == AssignAt(m, buf, d_first, ReadAt(m, buf, first_), ~traits.nothrowMove)
         IN IF Thrown(m1) \/ m1.ub THEN m1
            ELSE StdMove([m1 EXCEPT !.heap[buf].slots[first_ + 1] = MovedFrom],
                         buf, first_ + 1, last_, d_first + 1)

\* std::move_backward(buf + first, buf + last, buf + d_last): back to front
RECURSIVE StdMoveBackward(_, _, _, _, _)
StdMoveBackward(m, buf, first_, last_, d_last) ==
    IF first_ >= last_ THEN m
    ELSE LET m1 == AssignAt(m, buf, d_last - 1, ReadAt(m, buf, last_ - 1),
                            ~traits.nothrowMove)
         IN IF Thrown(m1) \/ m1.ub THEN m1
            ELSE StdMoveBackward([m1 EXCEPT !.heap[buf].slots[last_] = MovedFrom],
                                 buf, first_, last_ - 1, d_last - 1)

EraseLast(m, s, position) ==
    LET v == m.vec[s]
        m1 == DestroyAt(m, v.data.buffer, v.size - 1)
    IN [m1 EXCEPT !.vec[s].size = v.size - 1, !.ret = position]

\* Vector::Erase.  The assertion admits pos_ == end(): std::move is then given
\* the range [end() + 1, end()), which is undefined.
Erase(m, s, position) ==
    LET v == m.vec[s]
        buf == v.data.buffer
        m1 == IF position + 1 > v.size THEN [m EXCEPT !.ub = TRUE]
              ELSE StdMove(m, buf, position + 1, v.size, position)
    IN IF Thrown(m1) THEN m1 ELSE
       LET m2 == DestroyAt(m1, buf, v.size - 1)
       IN [m2 EXCEPT !.vec[s].size = v.size - 1, !.ret = position,
                     !.ub = m1.ub \/ m2.ub]

\* catch (...) { operator delete (end()); throw; } in Vector::Emplace: end() is the
\* start of the block only when the vector is empty; any other address was never
\* returned by operator new.
EmplaceCatch(m, s) ==
    LET v == m.vec[s] IN
    IF v.size = 0 THEN Deallocate(m, v.data.buffer)
    ELSE [m EXCEPT !.ub = TRUE]

\* Vector::Emplace, the branch taken when data.Capacity() <= size
EmplaceGrow(m, s, position, x) ==
    LET v == m.vec[s]
        size == v.size
        old == v.data.buffer
        new_data == RawMemoryOf(m, GrowthCapacity(size))
        m1 == Allocate(m, new_data.capacity)
    IN IF Thrown(m1) THEN m1 ELSE
       LET m2 == ConstructAt(m1, new_data.buffer, position, x, TRUE) IN
       IF Thrown(m2) THEN Deallocate(m2, new_data.buffer) ELSE
       LET m3 == Transfer(m2, old, 0, position, new_data.buffer, 0) IN
       IF Thrown(m3) THEN Deallocate(m3, new_data.buffer) ELSE
       LET m4 == Transfer(m3, old, position, size - position,
                          new_data.buffer, position + 1) IN
       IF Thrown(m4) THEN Deallocate(m4, new_data.buffer) ELSE
       LET m5 == DestroyN(m4, old, 0, size)
           m6 == [m5 EXCEPT !.vec[s].data = new_data]
       IN Deallocate(m6, old)

EmplaceInPlaceAtEnd(m, s, position, x) ==
    ConstructAt(m, m.vec[s].data.buffer, m.vec[s].size, x, TRUE)

\* Vector::Emplace, the try block of the branch taken when capacity suffices.
\* new_s is a local object: it is constructed and destroyed by the call.
EmplaceInPlace(m, s, position, x) ==
    LET v == m.vec[s]
        size == v.size
        buf == v.data.buffer
    IN IF position # size
       THEN LET m1 == IF Throws(m, TRUE)
                      THEN [m EXCEPT !.thrown = "elem", !.throwAt = 0]
                      ELSE [m EXCEPT !.ctor = @ + 1, !.throwAt = Tick(m, TRUE, 1)]
            IN IF Thrown(m1) THEN m1 ELSE
               LET m2 == ConstructAt(m1, buf, size, ReadAt(m1, buf, size - 1),
                                     ~traits.nothrowMove)
                   m3 == IF Thrown(m2) \/ m2.ub THEN m2
                         ELSE [m2 EXCEPT !.heap[buf].slots[size] = MovedFrom]
                   m4 == IF Thrown(m3) \/ m3.ub THEN m3
                         ELSE StdMoveBackward(m3, buf, position, size - 1, size)
                   m5 == IF Thrown(m4) \/ m4.ub THEN m4
                         ELSE AssignAt(m4, buf, position, x, ~traits.nothrowMove)
               IN [m5 EXCEPT !.dtor = @ + 1]
       ELSE ConstructAt(m, buf, size, x, TRUE)

\* Vector::Emplace; Vector::Insert forwards to it
Emplace(m, s, position, x) ==
    LET v == m.vec[s] IN
    IF v.data.capacity <= v.size
    THEN LET m1 == EmplaceGrow(m, s, position, x) IN
         IF Thrown(m1) THEN m1
         ELSE [m1 EXCEPT !.vec[s].size = v.size + 1, !.ret = position]
    ELSE LET m1 == EmplaceInPlace(m, s, position, x) IN
         IF Thrown(m1) THEN EmplaceCatch(m1, s)
         ELSE [m1 EXCEPT !.vec[s].size = v.size + 1, !.ret = position]

\* Vector::Swap
Swap(m, s, o) ==
    [m EXCEPT !.vec[s].data = m.vec[o].data, !.vec[o].data = m.vec[s].data,
              !.vec[s].size = m.vec[o].size, !.vec[o].size = m.vec[s].size]

\* Vector& operator=(Vector&& other_)
MoveAssign(m, s, o) == Swap(m, s, o)

\* Vector() = default
NewVector == [alive |-> TRUE, data |-> EmptyRawMemory, size |-> 0]
NoVector == [alive |-> FALSE, data |-> EmptyRawMemory, size |-> 0]

MoveConstructKeepsSize(m, s, o) ==
    [m EXCEPT !.vec[s] = [alive |-> TRUE, data |-> m.vec[o].data, size |-> m.vec[o].size],
              !.vec[o].data = EmptyRawMemory]

\* Vector(Vector&& other_): RawMemory(RawMemory&&) and std::exchange(other_.size, 0)
MoveConstruct(m, s, o) ==
    [m EXCEPT !.vec[s] = [alive |-> TRUE, data |-> m.vec[o].data, size |-> m.vec[o].size],
              !.vec[o].data = EmptyRawMemory,
              !.vec[o].size = 0]

\* Vector(const Vector& other_): when the copy throws, the member data is
\* destroyed and no Vector comes to exist.
CopyConstruct(m, s, o) ==
    LET w == m.vec[o]
        data == RawMemoryOf(m, w.size)
        m1 == Allocate(m, w.size)
    IN IF Thrown(m1) THEN m1 ELSE
       LET m2 == UninitializedCopyN(m1, w.data.buffer, 0, w.size, data.buffer, 0) IN
       IF Thrown(m2) THEN Deallocate(m2, data.buffer)
       ELSE [m2 EXCEPT !.vec[s] = [alive |-> TRUE, data |-> data, size |-> w.size]]

\* ~Vector, then ~RawMemory of the member data
Destroy(m, s) ==
    LET v == m.vec[s]
        m1 == DestroyN(m, v.data.buffer, 0, v.size)
        m2 == Deallocate(m1, v.data.buffer)
    IN [m2 EXCEPT !.vec[s] = NoVector]

\* std::copy(src + soff, src + soff + n, dst + doff): copy assignment, in order
RECURSIVE StdCopy(_, _, _, _, _, _)
StdCopy(m, src, soff, n, dst, doff) ==
    IF n <= 0 THEN m
    ELSE LET m1 == AssignAt(m, dst, doff, ReadAt(m, src, soff), TRUE)
         IN IF Thrown(m1) \/ m1.ub THEN m1
            ELSE StdCopy(m1, src, soff + 1, n - 1, dst, doff + 1)

CopyAssignKeepsSurplus(m, s, o) ==
    LET v == m.vec[s]
        w == m.vec[o]
    IN IF s = o THEN m
       ELSE IF w.size <= v.data.capacity
       THEN IF v.size <= w.size
            THEN LET m1 == StdCopy(m, w.data.buffer, 0, v.size, v.data.buffer, 0) IN
                 IF Thrown(m1) THEN m1 ELSE
                 LET m2 == UninitializedCopyN(m1, w.data.buffer, v.size,
                                              w.size - v.size, v.data.buffer, v.size) IN
                 IF Thrown(m2) THEN m2 ELSE [m2 EXCEPT !.vec[s].size = w.size]
            ELSE LET m1 == StdCopy(m, w.data.buffer, 0, w.size, v.data.buffer, 0) IN
                 IF Thrown(m1) THEN m1 ELSE
                 [m1 EXCEPT !.vec[s].size = w.size]
       ELSE \* Vector other_copy(other_); Swap(other_copy); ~Vector(other_copy)
            LET copy == RawMemoryOf(m, w.size)
                m1 == Allocate(m, w.size)
            IN IF Thrown(m1) THEN m1 ELSE
               LET m2 == UninitializedCopyN(m1, w.data.buffer, 0, w.size, copy.buffer, 0) IN
               IF Thrown(m2) THEN Deallocate(m2, copy.buffer) ELSE
               LET m3 == [m2 EXCEPT !.vec[s].data = copy, !.vec[s].size = w.size]
                   m4 == DestroyN(m3, v.data.buffer, 0, v.size)
               IN Deallocate(m4, v.data.buffer)

\* Vector& operator=(const Vector& other_)
CopyAssign(m, s, o) ==
    LET v == m.vec[s]
        w == m.vec[o]
    IN IF s = o THEN m
       ELSE IF w.size <= v.data.capacity
       THEN IF v.size <= w.size
            THEN LET m1 == StdCopy(m, w.data.buffer, 0, v.size, v.data.buffer, 0) IN
                 IF Thrown(m1) THEN m1 ELSE
                 LET m2 == UninitializedCopyN(m1, w.data.buffer, v.size,
                                              w.size - v.size, v.data.buffer, v.size) IN
                 IF Thrown(m2) THEN m2 ELSE [m2 EXCEPT !.vec[s].size = w.size]
            ELSE LET m1 == StdCopy(m, w.data.buffer, 0, w.size, v.data.buffer, 0) IN
                 IF Thrown(m1) THEN m1 ELSE
                 LET m2 == DestroyN(m1, v.data.buffer, w.size, v.size - w.size)
                 IN [m2 EXCEPT !.vec[s].size = w.size]
       ELSE \* Vector other_copy(other_); Swap(other_copy); ~Vector(other_copy)
            LET copy == RawMemoryOf(m, w.size)
                m1 == Allocate(m, w.size)
            IN IF Thrown(m1) THEN m1 ELSE
               LET m2 == UninitializedCopyN(m1, w.data.buffer, 0, w.size, copy.buffer, 0) IN
               IF Thrown(m2) THEN Deallocate(m2, copy.buffer) ELSE
               LET m3 == [m2 EXCEPT !.vec[s].data = copy, !.vec[s].size = w.size]
                   m4 == DestroyN(m3, v.data.buffer, 0, v.size)
               IN Deallocate(m4, v.data.buffer)

\* ----------------------------------------------------------- comparison
\* std::equal(first1, last1, first2, last2) on random-access ranges: the
\* lengths are compared first, then the elements in order
RECURSIVE EqualFrom(_, _, _)
EqualFrom(l, r, i) ==
    IF i > Len(l) THEN TRUE
    ELSE IF l[i] # r[i] THEN FALSE
    ELSE EqualFrom(l, r, i + 1)
StdEqual(l, r) == IF Len(l) # Len(r) THEN FALSE ELSE EqualFrom(l, r, 1)

\* std::lexicographical_compare
RECURSIVE LexFrom(_, _, _)
LexFrom(l, r, i) ==
    IF i > Len(l) \/ i > Len(r) THEN i > Len(l) /\ i <= Len(r)
    ELSE IF l[i] < r[i] THEN TRUE
    ELSE IF r[i] < l[i] THEN FALSE
    ELSE LexFrom(l, r, i + 1)
StdLexicographicalCompare(l, r) == LexFrom(l, r, 1)

\* std::lexicographical_compare_three_way: -1 is less, 0 equal, 1 greater
RECURSIVE ThreeWayFrom(_, _, _)
ThreeWayFrom(l, r, i) ==
    IF i > Len(l) THEN (IF i > Len(r) THEN 0 ELSE -1)
    ELSE IF i > Len(r) THEN 1
    ELSE IF l[i] < r[i] THEN -1
    ELSE IF l[i] > r[i] THEN 1
    ELSE ThreeWayFrom(l, r, i + 1)
StdLexicographicalCompareThreeWay(l, r) == ThreeWayFrom(l, r, 1)

\* operator==, !=, <, <=, >, >=, <=> of two vectors with elements l and r
OpEq(l, r) == StdEqual(l, r)
OpNe(l, r) == ~OpEq(l, r)
OpLt(l, r) == StdLexicographicalCompare(l, r)
OpLe(l, r) == ~OpLt(r, l)
OpGt(l, r) == OpLe(l, r)
OpGe(l, r) == ~OpLt(l, r)
OpSpaceship(l, r) == StdLexicographicalCompareThreeWay(l, r)

\* ------------------------------------------------------------ iterators
\* An iterator is the offset of its address from data.GetAddress(); a reverse
\* iterator is held as its base and designates the element before its base.
begin(v) == 0
end(v) == v.size
cbegin(v) == 0
cend(v) == v.size
\* ReverseIterator rbein() and ReverseIterator rend(), the mutable pair
rbein(v) == begin(v)
rend(v) == end(v)
crbegin(v) == cend(v)
crend(v) == cbegin(v)
\* ConstIterator begin() const, end() const; ConstReverseIterator rbegin() const, rend() const
begin_const(v) == cbegin(v)
end_const(v) == cend(v)
rbegin_const(v) == crbegin(v)
rend_const(v) == crend(v)

\* for (it = first; it != last; ++it) visit(*it): the offsets visited; reading
\* outside [begin(), end()) is undefined and ends the walk
RECURSIVE ForwardWalk(_, _, _, _)
ForwardWalk(v, it, last_, seen) ==
    IF it = last_ THEN [visit |-> seen, ub |-> FALSE]
    ELSE IF it \notin 0..(v.size - 1) THEN [visit |-> seen, ub |-> TRUE]
    ELSE ForwardWalk(v, it + 1, last_, Append(seen, it))

\* the same with std::reverse_iterator: *it is *(base - 1), ++it is --base
RECURSIVE ReverseWalk(_, _, _, _)
ReverseWalk(v, it, last_, seen) ==
    IF it = last_ THEN [visit |-> seen, ub |-> FALSE]
    ELSE IF it - 1 \notin 0..(v.size - 1) THEN [visit |-> seen, ub |-> TRUE]
    ELSE ReverseWalk(v, it - 1, last_, Append(seen, it - 1))

Pairs == {"begin/end", "cbegin/cend", "begin/end const",
          "rbein/rend", "crbegin/crend", "rbegin/rend const"}
NoVisit == [pair |-> "-", visit |-> <<>>]

\* a walk from the begin of a pair to its end
Traverse(m, s, pair) ==
    LET v == m.vec[s]
        w == CASE pair = "begin/end" -> ForwardWalk(v, begin(v), end(v), <<>>)
               [] pair = "cbegin/cend" -> ForwardWalk(v, cbegin(v), cend(v), <<>>)
               [] pair = "begin/end const" ->
                      ForwardWalk(v, begin_const(v), end_const(v), <<>>)
               [] pair = "rbein/rend" -> ReverseWalk(v, rbein(v), rend(v), <<>>)
               [] pair = "crbegin/crend" -> ReverseWalk(v, crbegin(v), crend(v), <<>>)
               [] pair = "rbegin/rend const" ->
                      ReverseWalk(v, rbegin_const(v), rend_const(v), <<>>)
    IN [m EXCEPT !.it = [pair |-> pair, visit |-> w.visit], !.ub = w.ub]

\* ------------------------------------- the assertions (NDEBUG not defined)
\* assert(false): the program is aborted before the next statement
AssertFail(m) == [m EXCEPT !.thrown = "assert"]

\* T& operator[](size_t index_): assert(index_ < size)
OperatorIndex(m, s, index_) ==
    IF ~(index_ < m.vec[s].size) THEN AssertFail(m)
    ELSE [m EXCEPT !.ret = ReadAt(m, m.vec[s].data.buffer, index_)]

\* T& At(size_t index_): assert(index_ < size)
At(m, s, index_) ==
    IF ~(index_ < m.vec[s].size) THEN AssertFail(m)
    ELSE [m EXCEPT !.ret = ReadAt(m, m.vec[s].data.buffer, index_)]

\* T& Front(): assert(size > 0)
Front(m, s) ==
    IF ~(m.vec[s].size > 0) THEN AssertFail(m)
    ELSE [m EXCEPT !.ret = ReadAt(m, m.vec[s].data.buffer, 0)]

\* T& Back(): assert(size > 0)
Back(m, s) ==
    IF ~(m.vec[s].size > 0) THEN AssertFail(m)
    ELSE [m EXCEPT !.ret = ReadAt(m, m.vec[s].data.buffer, m.vec[s].size - 1)]

\* PopBack with its assert(size)
PopBackAsserted(m, s) ==
    IF m.vec[s].size = 0 THEN AssertFail(m) ELSE PopBack(m, s)

\* Emplace with its assert(pos_ >= begin() && pos_ <= end())
EmplaceAsserted(m, s, position, x) ==
    IF ~(position >= begin(m.vec[s]) /\ position <= end(m.vec[s])) THEN AssertFail(m)
    ELSE Emplace(m, s, position, x)

\* Erase with its assert(pos_ >= begin() && pos_ <= end())
EraseAsserted(m, s, position) ==
    IF ~(position >= begin(m.vec[s]) /\ position <= end(m.vec[s])) THEN AssertFail(m)
    ELSE Erase(m, s, position)

\* ------------------------------------------------------------ observers
\* the slots of the block a vector holds, and the values of its live range
SlotsOf(h, v) == IF v.data.buffer = NullPtr THEN <<>> ELSE h[v.data.buffer].slots
SlotAt(h, v, i) == IF i \in DOMAIN SlotsOf(h, v) THEN SlotsOf(h, v)[i] ELSE Raw
ElemsOf(h, v) == [i \in 1..v.size |-> SlotAt(h, v, i)]
\* every comparison operator applied to vectors s and o
Compare(m, s, o) ==
    LET l == ElemsOf(m.heap, m.vec[s])
        r == ElemsOf(m.heap, m.vec[o])
    IN [m EXCEPT !.cmp = [eq |-> OpEq(l, r), ne |-> OpNe(l, r), lt |-> OpLt(l, r),
                          le |-> OpLe(l, r), gt |-> OpGt(l, r), ge |-> OpGe(l, r),
                          tw |-> OpSpaceship(l, r)]]

Elems(s) == ElemsOf(heap, vec[s])
PreElems(s) == ElemsOf(pre.heap, pre.vec[s])

\* ---------------------------------------------------------- the calls
\* A fault is what the environment does to the call: operator new fails
\* (alloc), or the throwAt-th element operation that may throw does (0: none).
NoFault == [alloc |-> FALSE, throwAt |-> 0]
AllocFault == [alloc |-> TRUE, throwAt |-> 0]
NoCmp == [eq |-> FALSE, ne |-> FALSE, lt |-> FALSE, le |-> FALSE, gt |-> FALSE,
          ge |-> FALSE, tw |-> 0]
\* a call on a vector of n elements makes at most n + 2 element operations
Faults(s) == {AllocFault} \cup {[alloc |-> FALSE, throwAt |-> k] : k \in 0..(vec[s].size + 2)}

Begin(fault) ==
    [heap |-> heap, vec |-> vec, leaked |-> leaked,
     thrown |-> "none",
     throwAt |-> fault.throwAt,
     allocFail |-> fault.alloc,
     allocs |-> 0, frees |-> 0, ctor |-> 0, dtor |-> 0, asg |-> 0, lost |-> 0,
     ret |-> 0, ub |-> FALSE, cmp |-> NoCmp, it |-> NoVisit]

Outcome(m) == IF m.ub THEN "ub" ELSE IF m.thrown = "none" THEN "ok" ELSE m.thrown

\* the injected fault is the one the call met
Fired(fault, m) ==
    \/ fault = NoFault /\ m.thrown \in {"none", "assert"}
    \/ fault = AllocFault /\ m.thrown = "bad_alloc"
    \/ fault.throwAt > 0 /\ m.thrown = "elem"

\* last and pre when no call is under observation
Idle == [op |-> "-", self |-> "a", other |-> "a", n |-> 0, x |-> 0,
         out |-> "ok", ret |-> 0, allocs |-> 0, frees |-> 0, ctor |-> 0,
         dtor |-> 0, asg |-> 0, lost |-> 0, cmp |-> NoCmp, it |-> NoVisit]
NoPre == [heap |-> [b \in Blocks |-> NoBlock],
          vec |-> [s \in Vecs |-> NoVector]]
NoSaved == [valid |-> FALSE, n |-> 0, size |-> 0, elems |-> <<>>]

\* The call's effect on the program, and its record: last is the call, pre the
\* state it was made in; saved keeps, across an Erase that directly follows a
\* successful Emplace, the position and the elements before that Emplace.
Commit(op, s, o, n, x, fault, m) ==
    /\ Fired(fault, m)
    /\ heap' = m.heap
    /\ vec' = m.vec
    /\ leaked' = m.leaked
    /\ ub' = m.ub
    /\ last' = [op |-> op, self |-> s, other |-> o, n |-> n, x |-> x,
                out |-> Outcome(m), ret |-> m.ret,
                allocs |-> m.allocs, frees |-> m.frees, ctor |-> m.ctor,
                dtor |-> m.dtor, asg |-> m.asg, lost |-> m.lost, cmp |-> m.cmp,
                it |-> m.it]
    /\ pre' = [heap |-> heap, vec |-> vec]
    /\ saved' = IF op = "Erase" /\ last.op = "Emplace" /\ last.out = "ok" /\ last.self = s
                THEN [valid |-> TRUE, n |-> last.n, size |-> pre.vec[s].size,
                      elems |-> PreElems(s)]
                ELSE NoSaved
    /\ UNCHANGED traits

\* The caller has looked at the outcome of the call: the record is dropped.
\* Calls are made from a state with no record, so that a state of the program
\* is explored once whatever call led to it.
Return ==
    /\ last # Idle
    /\ last' = Idle
    /\ pre' = NoPre
    /\ saved' = NoSaved
    /\ UNCHANGED <<heap, vec, traits, leaked, ub, hist>>

\* a call may be made: the program has met no undefined behaviour, the object exists
Ready(s) == ~ub /\ vec[s].alive /\ last = Idle

\* the call may add an element without passing the bounds of the model
MayGrow(s, limit) ==
    /\ vec[s].size < limit
    /\ vec[s].data.capacity <= vec[s].size => GrowthCapacity(vec[s].size) <= MaxCap

\* the ranges given to Assign: n values counting up from x, cyclically
Range(n, x) == [i \in 1..n |-> ((x + i - 2) % Cardinality(Values)) + 1]

CallPushBack(s, fault, limit) ==
    \E x \in Values :
        /\ Ready(s)
        /\ MayGrow(s, limit)
        /\ Commit("PushBack", s, s, 0, x, fault, PushBack(Begin(fault), s, x))

CallEmplaceBack(s, fault, limit) ==
    \E x \in Values :
        /\ Ready(s)
        /\ MayGrow(s, limit)
        /\ Commit("EmplaceBack", s, s, 0, x, fault, EmplaceBack(Begin(fault), s, x))

\* assert(size)
CallPopBack(s) ==
    /\ Ready(s)
    /\ vec[s].size # 0
    /\ Commit("PopBack", s, s, 0, 0, NoFault, PopBack(Begin(NoFault), s))

CallClear(s) ==
    /\ Ready(s)
    /\ Commit("Clear", s, s, 0, 0, NoFault, Clear(Begin(NoFault), s))

CallReserve(s, fault) ==
    \E n \in 0..MaxCap :
        /\ Ready(s)
        /\ Commit("Reserve", s, s, n, 0, fault, Reserve(Begin(fault), s, n))

CallResize(s, fault) ==
    \E n \in 0..MaxSize :
        /\ Ready(s)
        /\ n > vec[s].data.capacity => ResizeCapacity(vec[s].data.capacity, n) <= MaxCap
        /\ Commit("Resize", s, s, n, 0, fault, Resize(Begin(fault), s, n))

CallShrinkToFit(s, fault) ==
    /\ Ready(s)
    /\ Commit("ShrinkToFit", s, s, 0, 0, fault, ShrinkToFit(Begin(fault), s))

CallAssign(s, fault) ==
    \E n \in 0..MaxSize, x \in Values :
        /\ Ready(s)
        /\ traits.copyable
        /\ n = 0 => x = 1
        /\ Commit("Assign", s, s, n, x, fault, Assign(Begin(fault), s, Range(n, x)))

\* assert(pos_ >= begin() && pos_ <= end())
CallEmplace(s, fault, limit) ==
    \E x \in Values, position \in 0..MaxSize :
        /\ Ready(s)
        /\ position <= vec[s].size
        /\ MayGrow(s, limit)
        /\ Commit("Emplace", s, s, position, x, fault,
                  Emplace(Begin(fault), s, position, x))

\* assert(pos_ >= begin() && pos_ <= end()).  The call may also directly follow
\* an Emplace, whose record is then still there.
CallErase(s, fault) ==
    \E position \in 0..MaxSize :
        /\ ~ub /\ vec[s].alive
        /\ last = Idle \/ (last.op = "Emplace" /\ last.out = "ok" /\ last.self = s)
        /\ position <= vec[s].size
        /\ Commit("Erase", s, s, position, 0, fault, Erase(Begin(fault), s, position))

\* `Vector<T> s;`, `Vector<T> s(std::move(o));`, `Vector<T> s(o);`: s does not exist yet
Unborn(s) == ~ub /\ ~vec[s].alive /\ last = Idle

CallConstruct(s) ==
    /\ Unborn(s)
    /\ Commit("Vector", s, s, 0, 0, NoFault, [Begin(NoFault) EXCEPT !.vec[s] = NewVector])

CallMoveConstruct(s, o) ==
    /\ Unborn(s) /\ vec[o].alive
    /\ Commit("MoveConstruct", s, o, 0, 0, NoFault, MoveConstruct(Begin(NoFault), s, o))

CallCopyConstruct(s, o, fault) ==
    /\ Unborn(s) /\ vec[o].alive
    /\ traits.copyable
    /\ Commit("CopyConstruct", s, o, 0, 0, fault, CopyConstruct(Begin(fault), s, o))

\* the end of the lifetime of s
CallDestroy(s) ==
    /\ Ready(s)
    /\ Commit("Destroy", s, s, 0, 0, NoFault, Destroy(Begin(NoFault), s))

\* s = std::move(o)
CallMoveAssign(s, o) ==
    /\ Ready(s) /\ vec[o].alive /\ s # o
    /\ Commit("MoveAssign", s, o, 0, 0, NoFault, MoveAssign(Begin(NoFault), s, o))

\* s = o
CallCopyAssign(s, o, fault) ==
    /\ Ready(s) /\ vec[o].alive
    /\ traits.copyable
    /\ Commit("CopyAssign", s, o, 0, 0, fault, CopyAssign(Begin(fault), s, o))

CallSwap(s, o) ==
    /\ Ready(s) /\ vec[o].alive /\ s # o
    /\ Commit("Swap", s, o, 0, 0, NoFault, Swap(Begin(NoFault), s, o))

\* s == o, s != o, s < o, s <= o, s > o, s >= o, s <=> o
CallCompare(s, o) ==
    /\ Ready(s) /\ vec[o].alive
    /\ Commit("Compare", s, o, 0, 0, NoFault, Compare(Begin(NoFault), s, o))

\* for (auto it = s.<begin>(); it != s.<end>(); ++it) with one of the pairs
CallTraverse(s, pair) ==
    /\ Ready(s)
    /\ Commit("Traverse", s, s, 0, 0, NoFault, Traverse(Begin(NoFault), s, pair))

\* The calls of a caller that does not keep to the preconditions: any index,
\* any position from one before begin() to one past end(), any size.
Indexes == 0..(MaxSize + 1)
Positions == (0 - 1)..(MaxSize + 1)

CallAt(s) ==
    \E index_ \in Indexes :
        /\ Ready(s)
        /\ Commit("At", s, s, index_, 0, NoFault, At(Begin(NoFault), s, index_))

CallOperatorIndex(s) ==
    \E index_ \in Indexes :
        /\ Ready(s)
        /\ Commit("operator[]", s, s, index_, 0, NoFault,
                  OperatorIndex(Begin(NoFault), s, index_))

CallFront(s) ==
    /\ Ready(s)
    /\ Commit("Front", s, s, 0, 0, NoFault, Front(Begin(NoFault), s))

CallBack(s) ==
    /\ Ready(s)
    /\ Commit("Back", s, s, 0, 0, NoFault, Back(Begin(NoFault), s))

CallPopBackAsserted(s) ==
    /\ Ready(s)
    /\ Commit("PopBack", s, s, 0, 0, NoFault, PopBackAsserted(Begin(NoFault), s))

CallEmplaceAsserted(s, limit) ==
    \E x \in Values, position \in Positions :
        /\ Ready(s)
        /\ MayGrow(s, limit)
        /\ Commit("Emplace", s, s, position, x, NoFault,
                  EmplaceAsserted(Begin(NoFault), s, position, x))

CallEraseAsserted(s) ==
    \E position \in Positions :
        /\ Ready(s)
        /\ Commit("Erase", s, s, position, 0, NoFault,
                  EraseAsserted(Begin(NoFault), s, position))

\* ------------------------------------------------------ specifications
\* the state after `Vector<T> a;`
Init ==
    /\ heap = [b \in Blocks |-> NoBlock]
    /\ vec = [s \in Vecs |-> IF s = "a" THEN NewVector ELSE NoVector]
    /\ traits \in Kinds
    /\ last = Idle
    /\ pre = NoPre
    /\ leaked = FALSE
    /\ ub = FALSE
    /\ saved = NoSaved
    /\ hist = [pushes |-> 0, pops |-> 0, vals |-> <<>>]

APushBack == \E fault \in Faults("a") : CallPushBack("a", fault, MaxSize) /\ UNCHANGED hist
AEmplaceBack == \E fault \in Faults("a") : CallEmplaceBack("a", fault, MaxSize) /\ UNCHANGED hist
APopBack == CallPopBack("a") /\ UNCHANGED hist
AClear == CallClear("a") /\ UNCHANGED hist
AReserve == \E fault \in Faults("a") : CallReserve("a", fault) /\ UNCHANGED hist
AResize == \E fault \in Faults("a") : CallResize("a", fault) /\ UNCHANGED hist
AShrinkToFit == \E fault \in Faults("a") : CallShrinkToFit("a", fault) /\ UNCHANGED hist
AAssign == \E fault \in Faults("a") : CallAssign("a", fault) /\ UNCHANGED hist
AEmplace == \E fault \in Faults("a") : CallEmplace("a", fault, MaxSize) /\ UNCHANGED hist
AErase == \E fault \in Faults("a") : CallErase("a", fault) /\ UNCHANGED hist

\* every operation on one vector, with every fault
Next ==
    \/ APushBack
    \/ AEmplaceBack
    \/ APopBack
    \/ AClear
    \/ AReserve
    \/ AResize
    \/ AShrinkToFit
    \/ AAssign
    \/ AEmplace
    \/ AErase
    \/ Return

Spec == Init /\ [][Next]_vars

\* ------------------------------------------------------------ the claims
Size(s) == vec[s].size
Capacity(s) == vec[s].data.capacity
PreSize(s) == pre.vec[s].size
PreCapacity(s) == pre.vec[s].data.capacity

\* the last call was op on a and it returned normally
Returned(op) == last.op = op /\ last.out = "ok"

\* s has the size, the capacity, the block and the slot contents it had before the call
Untouched(s) ==
    /\ vec[s] = pre.vec[s]
    /\ SlotsOf(heap, vec[s]) = SlotsOf(pre.heap, pre.vec[s])

\* C2: Emplace/Insert of x at position p, on the growth path and on the path
\* without growth, yields the old sequence with x spliced in at p, one element
\* more, and returns the iterator to index p.
C2_InsertSplices ==
    Returned("Emplace") =>
        /\ Size("a") = PreSize("a") + 1
        /\ \A i \in 1..Size("a") :
              Elems("a")[i] = IF i <= last.n THEN PreElems("a")[i]
                              ELSE IF i = last.n + 1 THEN last.x
                              ELSE PreElems("a")[i - 1]
        /\ last.ret = last.n

\* an insertion in the middle of two elements that had to grow the buffer
C2_Witness ==
    /\ Returned("Emplace")
    /\ PreSize("a") = 2 /\ PreCapacity("a") = 2 /\ last.n = 1
    /\ PreElems("a")[1] # PreElems("a")[2] /\ last.x # PreElems("a")[2]

\* C7: Reserve(n) never lowers the capacity and never changes the size; when it
\* returns, the elements and their order are as before, nothing at all has
\* changed if n <= capacity(), and the capacity is exactly n otherwise.
C7_ReserveFrame ==
    last.op = "Reserve" =>
        /\ Capacity("a") >= PreCapacity("a")
        /\ Size("a") = PreSize("a")
        /\ last.out = "ok" =>
              /\ Elems("a") = PreElems("a")
              /\ last.n <= PreCapacity("a") => Untouched("a") /\ last.allocs = 0
              /\ last.n > PreCapacity("a") => Capacity("a") = last.n

\* a Reserve that moved two different elements into a larger buffer
C7_Witness ==
    /\ Returned("Reserve")
    /\ PreSize("a") = 2 /\ last.n > PreCapacity("a")
    /\ PreElems("a")[1] # PreElems("a")[2]
    /\ vec["a"].data.buffer # pre.vec["a"].data.buffer

\* C8: after Resize(n) the size is n; growing keeps the old elements, makes the
\* new ones value-initialised and raises the capacity to max(2 * capacity, n)
\* only when n exceeds it; shrinking keeps the prefix, destroys exactly the
\* size - n trailing elements, once each, and keeps the capacity.
C8_Resize ==
    Returned("Resize") =>
        /\ Size("a") = last.n
        /\ last.n >= PreSize("a") =>
              /\ \A i \in 1..PreSize("a") : Elems("a")[i] = PreElems("a")[i]
              /\ \A i \in (PreSize("a") + 1)..last.n : Elems("a")[i] = DefaultValue
              /\ Capacity("a") = IF last.n > PreCapacity("a")
                                 THEN Max2(2 * PreCapacity("a"), last.n)
                                 ELSE PreCapacity("a")
        /\ last.n < PreSize("a") =>
              /\ \A i \in 1..last.n : Elems("a")[i] = PreElems("a")[i]
              /\ last.dtor = PreSize("a") - last.n
              /\ \A i \in (last.n + 1)..PreSize("a") :
                    SlotAt(heap, vec["a"], i) = Raw
              /\ vec["a"].data = pre.vec["a"].data
        /\ last.lost = 0

\* a Resize that grew a vector of one element past its capacity
C8_Witness ==
    /\ Returned("Resize")
    /\ PreSize("a") = 1 /\ PreCapacity("a") = 1 /\ last.n = 3
    /\ Capacity("a") = 3

\* C9 as stated: an element operation that throws during PushBack/EmplaceBack
\* leaves the container unchanged.
C9_AppendStrong ==
    (last.op \in {"PushBack", "EmplaceBack"} /\ last.out = "elem") => Untouched("a")

\* C9 as amended: the same, for an element type that can be copied or whose
\* move constructor cannot throw.
C9_AppendStrongCopyable ==
    (/\ last.op \in {"PushBack", "EmplaceBack"}
     /\ last.out = "elem"
     /\ traits.copyable \/ traits.nothrowMove) => Untouched("a")

\* the copy of the second element into the new buffer threw
C9_Witness ==
    /\ last.op = "PushBack" /\ last.out = "elem"
    /\ traits.copyable /\ ~traits.nothrowMove
    /\ PreSize("a") = 2 /\ PreCapacity("a") = 2
    /\ last.ctor = 2

\* C10: a call whose allocation fails leaves the container as it was.
C10_AllocFailureUntouched ==
    last.out = "bad_alloc" => Untouched("a")

\* -------------------- one vector, pushes and pops only, counted (SpecStack)
StackPush ==
    /\ hist.pushes < MaxCalls
    /\ CallPushBack("a", NoFault, MaxSize)
    /\ hist' = [hist EXCEPT !.pushes = @ + 1, !.vals = Append(@, last'.x)]

StackPop ==
    /\ CallPopBack("a")
    /\ hist' = [hist EXCEPT !.pops = @ + 1, !.vals = SubSeq(@, 1, Len(@) - 1)]

NextStack == StackPush \/ StackPop \/ Return

SpecStack == Init /\ [][NextStack]_vars

\* C1: from an empty container, after any pushes and pops, the size is the
\* number of pushes minus the number of pops and the elements are the values
\* pushed and not yet popped, in the order they were pushed.
C1_StackContents ==
    /\ Size("a") = hist.pushes - hist.pops
    /\ Elems("a") = hist.vals

\* three pushes of which the middle value differs survive a push and a pop more
C1_Witness ==
    /\ hist.pushes = 4 /\ hist.pops = 1
    /\ Size("a") = 3 /\ Elems("a")[1] # Elems("a")[2]
    /\ Capacity("a") = 4

\* C3: Erase(p) undoes Emplace(p, x): the size and the elements are those before
\* the Emplace; and Erase(p) with p < size() removes exactly element p, moves the
\* elements after it one place to the left, lowers the size by one and returns
\* the iterator to index p.
C3_EraseInverse ==
    Returned("Erase") =>
        /\ (saved.valid /\ saved.n = last.n) =>
              /\ Size("a") = saved.size
              /\ Elems("a") = saved.elems
        /\ last.n < PreSize("a") =>
              /\ Size("a") = PreSize("a") - 1
              /\ \A i \in 1..Size("a") :
                    Elems("a")[i] = IF i <= last.n THEN PreElems("a")[i]
                                    ELSE PreElems("a")[i + 1]
              /\ last.ret = last.n
              /\ last.dtor = 1

\* an element put in the middle of two and erased again
C3_Witness ==
    /\ Returned("Erase")
    /\ saved.valid /\ saved.n = last.n /\ saved.n = 1 /\ saved.size = 2
    /\ saved.elems[1] # saved.elems[2]

\* ------------------------------------------- two vectors (SpecTwo)
TPushBack == \E s \in Vecs : \E fault \in Faults(s) :
                 CallPushBack(s, fault, MaxSize2) /\ UNCHANGED hist
TPopBack == \E s \in Vecs : CallPopBack(s) /\ UNCHANGED hist
TConstruct == CallConstruct("b") /\ UNCHANGED hist
TMoveConstruct == CallMoveConstruct("b", "a") /\ UNCHANGED hist
TCopyConstruct == \E fault \in Faults("a") :
                      CallCopyConstruct("b", "a", fault) /\ UNCHANGED hist
TDestroy == CallDestroy("b") /\ UNCHANGED hist
TMoveAssign == \E s, o \in Vecs : CallMoveAssign(s, o) /\ UNCHANGED hist
TCopyAssign == \E s, o \in Vecs : \E fault \in Faults(o) :
                   CallCopyAssign(s, o, fault) /\ UNCHANGED hist
TSwap == CallSwap("a", "b") /\ UNCHANGED hist
TCompare == \E s, o \in Vecs : CallCompare(s, o) /\ UNCHANGED hist

NextTwo ==
    \/ TPushBack
    \/ TPopBack
    \/ TConstruct
    \/ TMoveConstruct
    \/ TCopyConstruct
    \/ TDestroy
    \/ TMoveAssign
    \/ TCopyAssign
    \/ TSwap
    \/ TCompare
    \/ Return

SpecTwo == Init /\ [][NextTwo]_vars

\* the call touched no element and no block
NoElementTouched ==
    /\ heap = pre.heap
    /\ last.ctor = 0 /\ last.dtor = 0 /\ last.asg = 0
    /\ last.allocs = 0 /\ last.frees = 0

\* C4: move assignment leaves the source empty, with no capacity, and the
\* destination with the source's contents in the source's block, and touches
\* no element.
C4_MoveAssignEmptiesSource ==
    Returned("MoveAssign") =>
        /\ Size(last.other) = 0
        /\ Capacity(last.other) = 0
        /\ vec[last.self] = pre.vec[last.other]
        /\ NoElementTouched

\* C5: move construction leaves the source empty, with no capacity and no
\* block, and the new container with the source's size, capacity, block and
\* elements, and touches no element.
C5_MoveConstruct ==
    Returned("MoveConstruct") =>
        /\ vec[last.other] = NewVector
        /\ vec[last.self] = pre.vec[last.other]
        /\ Elems(last.self) = PreElems(last.other)
        /\ NoElementTouched

\* a vector of two elements was moved into a new one
C5_Witness ==
    /\ Returned("MoveConstruct")
    /\ pre.vec["a"].size = 2 /\ pre.vec["a"].data.buffer # NullPtr
    /\ Size("b") = 2

\* element-wise lexicographic order of two sequences
LexLess(l, r) ==
    \E k \in 0..Len(l) :
        /\ k <= Len(r)
        /\ \A i \in 1..k : l[i] = r[i]
        /\ \/ k = Len(l) /\ k < Len(r)
           \/ k < Len(l) /\ k < Len(r) /\ l[k + 1] < r[k + 1]

SameSeq(l, r) == Len(l) = Len(r) /\ \A i \in 1..Len(l) : l[i] = r[i]

\* C6: every comparison operator returns the element-wise lexicographic result:
\* == is same length and equal elements, != its negation, a < b is a before b,
\* a <= b is not b < a, a > b is b < a, a >= b is not a < b, and <=> agrees.
C6_Comparisons ==
    Returned("Compare") =>
        LET l == Elems(last.self)
            r == Elems(last.other)
        IN /\ last.cmp.eq = SameSeq(l, r)
           /\ last.cmp.ne = ~SameSeq(l, r)
           /\ last.cmp.lt = LexLess(l, r)
           /\ last.cmp.le = ~LexLess(r, l)
           /\ last.cmp.gt = LexLess(r, l)
           /\ last.cmp.ge = ~LexLess(l, r)
           /\ last.cmp.tw = (IF LexLess(l, r) THEN -1 ELSE IF LexLess(r, l) THEN 1 ELSE 0)

\* ------------------------------------------------ the container invariant
\* the call broke Erase's precondition pos_ < end(), which the assertion admits
ErasedAtEnd == last.op = "Erase" /\ last.n >= PreSize(last.self)

\* v has at most capacity() elements, its capacity() slots are those of an
\* allocated block, the first size() of them hold objects and the others none
WellFormed(h, v) ==
    /\ v.size >= 0 /\ v.size <= v.data.capacity
    /\ v.data.capacity > 0 =>
          /\ v.data.buffer # NullPtr
          /\ h[v.data.buffer].alloc
          /\ Len(h[v.data.buffer].slots) = v.data.capacity
    /\ \A i \in 1..v.size : SlotAt(h, v, i) # Raw
    /\ \A i \in (v.size + 1)..v.data.capacity : SlotAt(h, v, i) = Raw

\* C11: the state any call leaves, a call that threw included, has
\* size() <= capacity(), an object in every slot of [0, size()) and none in
\* the slots of [size(), capacity()).
C11_ContainerInvariant ==
    (last # Idle /\ ~ErasedAtEnd) =>
        \A s \in Vecs : vec[s].alive => WellFormed(heap, vec[s])

\* ------------------------------------------------ ownership of the blocks
\* the vectors whose RawMemory holds block b
Owners(b) == {s \in Vecs : vec[s].alive /\ vec[s].data.buffer = b}

\* C12: every allocated block is held by exactly one container, no block has
\* lost its owner without being released, and no container holds a block that
\* was released already (its destructor would release it a second time).
C12_ExclusiveOwnership ==
    /\ ~leaked
    /\ \A b \in Blocks : heap[b].alloc => Cardinality(Owners(b)) = 1
    /\ \A s \in Vecs : (vec[s].alive /\ vec[s].data.buffer # NullPtr) =>
                           heap[vec[s].data.buffer].alloc

\* C13: after ShrinkToFit the capacity is the size (and the buffer null when the
\* size is 0), the size and the elements are as before; with size() ==
\* capacity() beforehand nothing changes, the block included.
C13_ShrinkToFit ==
    Returned("ShrinkToFit") =>
        /\ Capacity("a") = Size("a")
        /\ Size("a") = 0 => vec["a"].data.buffer = NullPtr
        /\ Size("a") = PreSize("a")
        /\ Elems("a") = PreElems("a")
        /\ PreSize("a") = PreCapacity("a") =>
              /\ Untouched("a")
              /\ last.allocs = 0 /\ last.frees = 0 /\ last.ctor = 0

\* two different elements were moved out of a block of four slots into one of two
C13_Witness ==
    /\ Returned("ShrinkToFit")
    /\ PreSize("a") = 2 /\ PreCapacity("a") = 4
    /\ PreElems("a")[1] # PreElems("a")[2]
    /\ vec["a"].data.buffer # pre.vec["a"].data.buffer
    /\ Capacity("a") = 2

\* the vector was a well-formed container when the call was made
PreWellFormed(s) == WellFormed(pre.heap, pre.vec[s])

\* C14: after Assign of a range of k values the size is k, the elements are the
\* values of the range in order, every element that was there has been destroyed
\* exactly once, and the capacity is k if k exceeded it and unchanged otherwise.
C14_Assign ==
    (Returned("Assign") /\ PreWellFormed("a")) =>
        /\ Size("a") = last.n
        /\ Elems("a") = Range(last.n, last.x)
        /\ last.dtor = PreSize("a")
        /\ last.lost = 0
        /\ Capacity("a") = IF last.n > PreCapacity("a") THEN last.n
                           ELSE PreCapacity("a")

\* three values assigned to a full vector of two elements
C14_Witness ==
    /\ Returned("Assign") /\ PreWellFormed("a")
    /\ PreSize("a") = 2 /\ PreCapacity("a") = 2 /\ last.n = 3
    /\ Elems("a")[1] # Elems("a")[2]

\* ------------------------ one vector, appended to, popped, walked (SpecIter)
ATraverse == \E pair \in Pairs : CallTraverse("a", pair) /\ UNCHANGED hist

NextIter ==
    \/ APushBack
    \/ APopBack
    \/ AClear
    \/ AReserve
    \/ ATraverse
    \/ Return

SpecIter == Init /\ [][NextIter]_vars

\* C15: a walk from the begin of any of the iterator pairs to its end visits
\* every element of [0, size()) once, in the order 0..size()-1 for the forward
\* pairs and size()-1..0 for the reverse pairs, and nothing in an empty vector.
C15_IteratorPairs ==
    last.op = "Traverse" =>
        /\ last.out = "ok"
        /\ last.it.visit =
              IF last.it.pair \in {"begin/end", "cbegin/cend", "begin/end const"}
              THEN [i \in 1..Size("a") |-> i - 1]
              ELSE [i \in 1..Size("a") |-> Size("a") - i]

\* C16: a PushBack or EmplaceBack acquires at most one buffer, and only when
\* capacity() <= size() beforehand; the capacity is then max(1, 2 * capacity());
\* with capacity() > size() it acquires none, keeps the capacity and the block,
\* and moves, copies or destroys no element that was there.
C16_AppendGrowth ==
    (last.op \in {"PushBack", "EmplaceBack"} /\ PreWellFormed(last.self)) =>
        /\ last.allocs <= 1
        /\ last.allocs = 1 => PreCapacity(last.self) <= PreSize(last.self)
        /\ (last.out = "ok" /\ PreCapacity(last.self) <= PreSize(last.self)) =>
              /\ last.allocs = 1
              /\ Capacity(last.self) = Max2(1, 2 * PreCapacity(last.self))
        /\ PreCapacity(last.self) > PreSize(last.self) =>
              /\ last.allocs = 0 /\ last.frees = 0
              /\ vec[last.self].data = pre.vec[last.self].data
              /\ \A i \in 1..PreSize(last.self) :
                    SlotAt(heap, vec[last.self], i) =
                        SlotAt(pre.heap, pre.vec[last.self], i)
              /\ last.dtor = 0 /\ last.asg = 0 /\ last.ctor <= 1

\* a PushBack on a full vector of two elements doubled the capacity
C16_Witness ==
    /\ Returned("PushBack") /\ PreWellFormed("a")
    /\ PreSize("a") = 2 /\ PreCapacity("a") = 2
    /\ Capacity("a") = 4 /\ last.allocs = 1

\* C17: no call releases a block that still holds an object, or constructs an
\* object over one: every object whose storage goes has been destroyed.
C17_LifetimesBalanced ==
    (last # Idle /\ PreWellFormed(last.self) /\ ~ErasedAtEnd) => last.lost = 0

\* C18: when a step of Emplace/Insert throws on the branch taken with
\* capacity() > size(), the exception reaches the caller, the size is not
\* raised, the slot at index size() holds no object, and the container still
\* holds its block, which is still allocated.
C18_InPlaceInsertFailure ==
    (/\ last.op = "Emplace" /\ last.out # "ok"
     /\ PreWellFormed("a") /\ PreCapacity("a") > PreSize("a")) =>
        /\ last.out = "elem"
        /\ Size("a") = PreSize("a")
        /\ SlotAt(heap, vec["a"], Size("a") + 1) = Raw
        /\ vec["a"].data = pre.vec["a"].data
        /\ heap[vec["a"].data.buffer].alloc

\* ------------- one vector and a caller that breaks preconditions (SpecAssert)
VAt == CallAt("a") /\ UNCHANGED hist
VOperatorIndex == CallOperatorIndex("a") /\ UNCHANGED hist
VFront == CallFront("a") /\ UNCHANGED hist
VBack == CallBack("a") /\ UNCHANGED hist
VPopBack == CallPopBackAsserted("a") /\ UNCHANGED hist
VEmplace == CallEmplaceAsserted("a", MaxSize) /\ UNCHANGED hist
VErase == CallEraseAsserted("a") /\ UNCHANGED hist

NextAssert ==
    \/ APushBack
    \/ AReserve
    \/ VAt
    \/ VOperatorIndex
    \/ VFront
    \/ VBack
    \/ VPopBack
    \/ VEmplace
    \/ VErase
    \/ Return

SpecAssert == Init /\ [][NextAssert]_vars

\* the last call broke the precondition of the operation
PreconditionBroken ==
    \/ last.op \in {"At", "operator[]"} /\ last.n >= PreSize("a")
    \/ last.op \in {"Front", "Back", "PopBack"} /\ PreSize("a") = 0
    \/ last.op = "Emplace" /\ (last.n < 0 \/ last.n > PreSize("a"))
    \/ last.op = "Erase" /\ (last.n < 0 \/ last.n >= PreSize("a"))

\* C19: with the assertions on, a call that breaks its precondition stops at
\* the assertion, with the storage untouched.
C19_AssertionsCatch ==
    PreconditionBroken =>
        /\ last.out = "assert"
        /\ heap = pre.heap /\ vec = pre.vec

\* C20: copy assignment s = o leaves s with the size and the elements of o and
\* leaves o as it was; with o.size() <= s.capacity() it keeps the capacity and
\* the block of s and destroys exactly the elements s had in surplus; otherwise
\* the capacity of s is o.size(); self-assignment changes nothing.
C20_CopyAssign ==
    (/\ Returned("CopyAssign")
     /\ PreWellFormed(last.self) /\ PreWellFormed(last.other)) =>
        /\ Size(last.self) = PreSize(last.other)
        /\ Elems(last.self) = PreElems(last.other)
        /\ WellFormed(heap, vec[last.self])
        /\ last.self # last.other => Untouched(last.other)
        /\ PreSize(last.other) <= PreCapacity(last.self) =>
              /\ vec[last.self].data = pre.vec[last.self].data
              /\ last.allocs = 0 /\ last.frees = 0
              /\ last.dtor = Max2(PreSize(last.self) - PreSize(last.other), 0)
        /\ PreSize(last.other) > PreCapacity(last.self) =>
              /\ Capacity(last.self) = PreSize(last.other)
              /\ last.dtor = PreSize(last.self)
        /\ last.lost = 0
        /\ last.self = last.other => Untouched(last.self) /\ NoElementTouched

\* a vector of two elements was assigned one of one element, and lost its second
C20_Witness ==
    /\ Returned("CopyAssign") /\ last.self = "a" /\ last.other = "b"
    /\ PreWellFormed("a") /\ PreWellFormed("b")
    /\ PreSize("a") = 2 /\ PreSize("b") = 1
    /\ PreElems("a")[1] # PreElems("b")[1]
    /\ last.dtor = 1

====
